---- MODULE Spec2Model ----
(***************************************************************************)
(* A model of optax/projections/_projections.py.                           *)
(*                                                                         *)
(* Array entries are extended rationals <<n, d>>: d > 0 is the reduced     *)
(* fraction n/d, <<1, 0>> is +inf, <<-1, 0>> is -inf and <<0, 0>> is NaN,  *)
(* with the IEEE-754 rules for the special values.  Arithmetic on finite   *)
(* values is exact (no rounding).  A 1-D array is a sequence of entries.   *)
(***************************************************************************)
EXTENDS Integers, Sequences, FiniteSets, TLC

\* ------------------------------------------------------------------ bounds
MaxLen == 3     \* longest input vector of a projector
MaxVal == 2     \* projector inputs have integer entries in -MaxVal..MaxVal
MaxScale == 2   \* scales (radii) are integers up to MaxScale
MaxBox == 1     \* box bounds lower, upper are integers in -MaxBox..MaxBox
MaxApply == 2   \* how many times in a row a projector is applied
MaxDim == 2     \* similarity matrices have 1..MaxDim rows and columns
MaxSim == 1     \* similarity entries are integers of magnitude up to MaxSim
MaxParam == 1   \* a minimizer returns dual variables of magnitude up to MaxParam
MaxIter == 1    \* a minimizer reports an iteration count in 0..MaxIter

\* ------------------------------------------------- extended rational numbers
IAbs(i) == IF i < 0 THEN -i ELSE i

ISgn(i) == IF i > 0 THEN 1 ELSE IF i < 0 THEN -1 ELSE 0

RECURSIVE GCD(_, _)
GCD(a, b) == IF b = 0 THEN a ELSE GCD(b, a % b)

\* the entry n/d in reduced form; a zero denominator keeps only the sign
Q(n, d) ==
  IF d = 0 THEN <<ISgn(n), 0>>
  ELSE LET g == GCD(IAbs(n), IAbs(d))
           s == ISgn(d)
       IN  <<(s * n) \div g, (s * d) \div g>>

Int2Q(i) == <<i, 1>>

Zero == Int2Q(0)

One == Int2Q(1)

NaN == <<0, 0>>

PosInf == <<1, 0>>

NegInf == <<-1, 0>>

IsNaN(a) == a = NaN

IsFinite(a) == a[2] # 0

\* a + b
add(a, b) ==
  IF IsNaN(a) \/ IsNaN(b) THEN NaN
  ELSE IF ~IsFinite(a) /\ ~IsFinite(b) THEN (IF a = b THEN a ELSE NaN)
  ELSE IF ~IsFinite(a) THEN a
  ELSE IF ~IsFinite(b) THEN b
  ELSE Q(a[1] * b[2] + b[1] * a[2], a[2] * b[2])

neg(a) == <<-a[1], a[2]>>

\* a - b
sub(a, b) == add(a, neg(b))

\* a * b (inf * 0 = NaN)
mul(a, b) == Q(a[1] * b[1], a[2] * b[2])

\* 1 / a (1 / 0 = +inf, 1 / inf = 0)
recip(a) ==
  IF a[1] > 0 THEN <<a[2], a[1]>>
  ELSE IF a[1] < 0 THEN <<-a[2], -a[1]>>
  ELSE IF a[2] = 0 THEN NaN
  ELSE PosInf

\* a / b (x / 0 = +-inf, 0 / 0 = NaN)
div(a, b) == mul(a, recip(b))

\* a < b; false when either is NaN
lt(a, b) ==
  /\ ~IsNaN(a)
  /\ ~IsNaN(b)
  /\ IF IsFinite(a) /\ IsFinite(b) THEN a[1] * b[2] < b[1] * a[2]
     ELSE IF ~IsFinite(a) /\ ~IsFinite(b) THEN a[1] < b[1]
     ELSE IF ~IsFinite(a) THEN a[1] < 0
     ELSE b[1] > 0

\* a <= b; false when either is NaN
le(a, b) == ~IsNaN(a) /\ ~IsNaN(b) /\ (a = b \/ lt(a, b))

\* a > b
gt(a, b) == lt(b, a)

\* jnp.maximum: NaN propagates
maximum(a, b) ==
  IF IsNaN(a) \/ IsNaN(b) THEN NaN ELSE IF lt(a, b) THEN b ELSE a

\* jnp.minimum: NaN propagates
minimum(a, b) ==
  IF IsNaN(a) \/ IsNaN(b) THEN NaN ELSE IF lt(b, a) THEN b ELSE a

\* jax.nn.relu
relu(a) == maximum(a, Zero)

\* jnp.clip(a, lo, hi) = minimum(maximum(a, lo), hi)
clip(a, lo, hi) == minimum(maximum(a, lo), hi)

\* jnp.abs
abs(a) == <<IAbs(a[1]), a[2]>>

\* jnp.sign: -1, 0 or 1 (NaN for NaN)
sign(a) == IF IsNaN(a) THEN NaN ELSE Int2Q(ISgn(a[1]))

IsSquareInt(n) == \E r \in 0..n : r * r = n

ISqrt(n) == CHOOSE r \in 0..n : r * r = n

\* whether the square root of a finite non-negative entry is rational
HasRationalSqrt(a) ==
  IsFinite(a) /\ a[1] >= 0 /\ IsSquareInt(a[1]) /\ IsSquareInt(a[2])

\* jnp.sqrt, on the entries whose root is representable
sqrt(a) ==
  IF IsNaN(a) \/ a[1] < 0 THEN NaN
  ELSE IF ~IsFinite(a) THEN PosInf
  ELSE <<ISqrt(a[1]), ISqrt(a[2])>>

\* jnp.where on scalars
where(c, a, b) == IF c THEN a ELSE b

\* --------------------------------------------------------------- 1-D arrays
RECURSIVE SumSeq(_)
SumSeq(v) == IF v = <<>> THEN Zero ELSE add(v[1], SumSeq(Tail(v)))

\* jnp.cumsum
cumsum(u) == [k \in 1..Len(u) |-> SumSeq(SubSeq(u, 1, k))]

RECURSIVE Insert(_, _)
Insert(a, s) ==
  IF s = <<>> THEN <<a>>
  ELSE IF le(a, s[1]) THEN <<a>> \o s
  ELSE <<s[1]>> \o Insert(a, Tail(s))

\* jnp.sort: ascending
RECURSIVE sort(_)
sort(v) == IF v = <<>> THEN <<>> ELSE Insert(v[1], sort(Tail(v)))

\* v[::-1]
reversed(v) == [i \in 1..Len(v) |-> v[Len(v) + 1 - i]]

\* jnp.count_nonzero of a boolean array
count_nonzero(c) == Cardinality({i \in 1..Len(c) : c[i]})

\* u[i] for a 0-based index i, negative indices counting from the end
at(u, i) == IF i < 0 THEN u[Len(u) + i + 1] ELSE u[i + 1]

\* v * c, v / c, c entrywise
scaled(c, v) == [i \in 1..Len(v) |-> mul(c, v[i])]

divided(v, c) == [i \in 1..Len(v) |-> div(v[i], c)]

full(n, c) == [i \in 1..n |-> c]

\* ------------------------------------------------ optax.tree helpers
\* optax.tree.norm(tree, ord=1): the sum of the absolute values
tree_norm_l1(tree) == SumSeq([i \in 1..Len(tree) |-> abs(tree[i])])

\* optax.tree.norm(tree, squared=True): the sum of the squares
tree_norm_squared(tree) == SumSeq([i \in 1..Len(tree) |-> mul(tree[i], tree[i])])

\* optax.tree.norm(tree): the square root of the sum of the squares
tree_norm(tree) == sqrt(tree_norm_squared(tree))

\* optax.tree.scale(factor, tree)
tree_scale(factor, tree) == scaled(factor, tree)

\* optax.tree.mul(a, b): the entrywise product
tree_mul(a, b) == [i \in 1..Len(a) |-> mul(a[i], b[i])]

\* optax.tree.full_like(tree, value)
tree_full_like(tree, value) == full(Len(tree), value)

\* ------------------------------------------------------------- projections
projection_non_negative(tree) == [i \in 1..Len(tree) |-> relu(tree[i])]

\* lower and upper are arrays of the length of tree
projection_box(tree, lower, upper) ==
  [i \in 1..Len(tree) |-> clip(tree[i], lower[i], upper[i])]

\* the scalars 0 and scale are broadcast over the array by jnp.clip
projection_hypercube(tree, scale) ==
  projection_box(tree, full(Len(tree), Zero), full(Len(tree), scale))

\* mutant of simplex_cond: the term s / k is left out
simplex_cond_no_s(u, cumsum_u) ==
  [k \in 1..Len(u) |-> gt(sub(u[k], div(cumsum_u[k], Int2Q(k))), Zero)]

\* cond[k] is s / k + (u[k] - cumsum_u[k] / k) > 0 with s = 1, k = 1..n
simplex_cond(u, cumsum_u) ==
  [k \in 1..Len(u) |->
     gt(add(div(One, Int2Q(k)), sub(u[k], div(cumsum_u[k], Int2Q(k)))), Zero)]

\* idx = count_nonzero(cond)
simplex_idx(values) ==
  LET u == reversed(sort(values))
  IN  count_nonzero(simplex_cond(u, cumsum(u)))

projection_unit_simplex(values) ==
  LET u == reversed(sort(values))
      cumsum_u == cumsum(u)
      idx == simplex_idx(values)
      idxq == Int2Q(idx)
  IN  [i \in 1..Len(values) |->
         relu(add(div(One, idxq),
                  sub(values[i], div(at(cumsum_u, idx - 1), idxq))))]

\* mutant of projection_simplex: the result is not scaled back
projection_simplex_unscaled(tree, scale) ==
  projection_unit_simplex(divided(tree, scale))

\* ravel_pytree of a 1-D array is the array itself
projection_simplex(tree, scale) ==
  scaled(scale, projection_unit_simplex(divided(tree, scale)))

projection_l1_sphere(tree, scale) ==
  LET tree_abs == [i \in 1..Len(tree) |-> abs(tree[i])]
      tree_sign == [i \in 1..Len(tree) |-> sign(tree[i])]
      tree_abs_proj == projection_simplex(tree_abs, scale)
  IN  tree_mul(tree_sign, tree_abs_proj)

\* mutant of l1_ball_pred: a vector on the sphere is projected again
l1_ball_pred_strict(tree, scale) == lt(tree_norm_l1(tree), scale)

\* the branch jax.lax.cond selects: TRUE is the identity branch
l1_ball_pred(tree, scale) == le(tree_norm_l1(tree), scale)

projection_l1_ball(tree, scale) ==
  IF l1_ball_pred(tree, scale) THEN tree ELSE projection_l1_sphere(tree, scale)

l2_sphere_factor(tree, scale) == div(scale, tree_norm(tree))

projection_l2_sphere(tree, scale) ==
  tree_scale(l2_sphere_factor(tree, scale), tree)

l2_ball_factor(tree, scale) ==
  LET squared_norm == tree_norm_squared(tree)
      positive == gt(squared_norm, Zero)
      valid_squared_norm == where(positive, squared_norm, One)
      norm == where(positive, sqrt(valid_squared_norm), Zero)
  IN  div(scale, maximum(norm, scale))

projection_l2_ball(tree, scale) == tree_scale(l2_ball_factor(tree, scale), tree)

projection_linf_ball(tree, scale) ==
  LET lower == tree_full_like(tree, neg(scale))
      upper == tree_full_like(tree, scale)
  IN  projection_box(tree, lower, upper)

\* ------------------------------------------------------------------- state
VARIABLES
  fn,         \* the projector under study
  x,          \* its input vector
  par,        \* its parameters [scale, lower, upper]
  out,        \* the results of its successive applications, each to the last
  branch,     \* per application, the branch projection_l1_ball took
  pc,         \* where the transport call is
  entry,      \* the public entry point called, with its arguments
  targs,      \* the arguments projection_transport / kl_projection_transport got
  dargs,      \* the arguments the transport driver got
  calls,      \* how often a driver, make_solver and solver.run were invoked
  objective,  \* the objective handed to make_solver
  run_init,   \* the initial parameters handed to solver.run
  result,     \* what solver.run returned
  plan,       \* the plan the driver returned
  tplan,      \* what projection_transport / kl_projection_transport returned
  bplan,      \* what projection_birkhoff / kl_projection_birkhoff returned
  error       \* the exception raised

projvars == <<fn, x, par, out, branch>>

transvars ==
  <<pc, entry, targs, dargs, calls, objective, run_init, result, plan, tplan,
    bplan, error>>

vars == <<projvars, transvars>>

\* ------------------------------------------------------ projector inputs
Vectors ==
  UNION {[1..n -> {Int2Q(i) : i \in -MaxVal..MaxVal}] : n \in 1..MaxLen}

PositiveScales == {Int2Q(i) : i \in 1..MaxScale}

\* radii of the L2 ball and sphere: zero as well
Scales == {Int2Q(i) : i \in 0..MaxScale}

BoxBounds == {Int2Q(i) : i \in -MaxBox..MaxBox}

NoPar == [scale |-> One, lower |-> <<>>, upper |-> <<>>]

ScalePar(scale) == [scale |-> scale, lower |-> <<>>, upper |-> <<>>]

Projectors ==
  {"projection_non_negative", "projection_box", "projection_hypercube",
   "projection_simplex", "projection_l1_sphere", "projection_l1_ball",
   "projection_l2_sphere", "projection_l2_ball", "projection_linf_ball"}

\* the parameters a projector is given for an input v
ParsOf(f, v) ==
  IF f = "projection_non_negative" THEN {NoPar}
  ELSE IF f = "projection_box"
    THEN {[scale |-> One, lower |-> full(Len(v), b[1]), upper |-> full(Len(v), b[2])] :
            b \in {c \in BoxBounds \X BoxBounds : le(c[1], c[2])}}
  ELSE IF f \in {"projection_l2_sphere", "projection_l2_ball"}
    THEN {ScalePar(s) : s \in Scales}
  ELSE {ScalePar(s) : s \in PositiveScales}

\* the L2 projectors are given the inputs whose norm is rational
InputOk(f, v) ==
  f \in {"projection_l2_sphere", "projection_l2_ball"}
    => HasRationalSqrt(tree_norm_squared(v))

\* the vector the next application is given
Cur == IF out = <<>> THEN x ELSE out[Len(out)]

\* ---------------------------------------------------- transport inputs
Array(shape, data) == [shape |-> shape, data |-> data]

\* jnp.ones(n)
ones(n) == Array(<<n>>, full(n, One))

\* jnp.zeros(n)
zeros(n) == Array(<<n>>, full(n, Zero))

\* similarity matrices: d on the diagonal, 0 elsewhere
SimMatrices ==
  {[i \in 1..m |-> [j \in 1..n |-> Int2Q(IF i = j THEN d ELSE 0)]] :
     m \in 1..MaxDim, n \in 1..MaxDim, d \in 0..MaxSim}

\* marginals of rank 0, 1 and 2, with strictly positive entries
MarginalArrays ==
  {Array(<<>>, <<One>>)}
  \cup {ones(n) : n \in 1..MaxDim}
  \cup {Array(<<n>>, [i \in 1..n |-> Int2Q(i)]) : n \in 1..MaxDim}
  \cup {Array(<<n, 1>>, full(n, One)) : n \in 1..MaxDim}

MakeSolvers == {"None", "make_solver"}

\* matrix.shape
shape(matrix) == <<Len(matrix), Len(matrix[1])>>

\* -matrix
negated(matrix) ==
  [i \in 1..Len(matrix) |-> [j \in 1..Len(matrix[i]) |-> neg(matrix[i][j])]]

NoArray == Array(<<>>, <<>>)

NoEntry ==
  [fn |-> "none", sim_matrix |-> <<>>, marginals |-> <<>>,
   make_solver |-> "None", use_semi_dual |-> TRUE]

NoDargs ==
  [driver |-> "none", cost_matrix |-> <<>>, marginals_a |-> NoArray,
   marginals_b |-> NoArray, make_solver |-> "None", value_vmap |-> "none",
   grad_vmap |-> "none", gamma |-> One]

NoObjective == [builder |-> "none", vmap |-> "none", gamma |-> One]

NoResult == [params |-> <<>>, converged |-> FALSE, iter_num |-> 0]

NoCalls == [driver |-> 0, make_solver |-> 0, run |-> 0]

NoTargs ==
  [fn |-> "none", sim_matrix |-> <<>>, marginals |-> <<NoArray, NoArray>>,
   make_solver |-> "None", use_semi_dual |-> TRUE]

\* no transport call has been made
TransIdle ==
  /\ pc = "idle"
  /\ entry = NoEntry
  /\ targs = NoTargs
  /\ dargs = NoDargs
  /\ calls = NoCalls
  /\ objective = NoObjective
  /\ run_init = <<>>
  /\ result = NoResult
  /\ plan = <<>>
  /\ tplan = <<>>
  /\ bplan = <<>>
  /\ error = "none"

\* no projector is under study
ProjIdle ==
  /\ fn = "none"
  /\ x = <<>>
  /\ par = NoPar
  /\ out = <<>>
  /\ branch = <<>>

\* --------------------------------------------- applying the projectors
\* one more application of projector f, whose result is y
Applied(f, y) ==
  /\ fn = f
  /\ Len(out) < MaxApply
  /\ out' = Append(out, y)
  /\ UNCHANGED <<fn, x, par>>
  /\ UNCHANGED transvars

apply_projection_non_negative ==
  /\ Applied("projection_non_negative", projection_non_negative(Cur))
  /\ UNCHANGED branch

apply_projection_box ==
  /\ Applied("projection_box", projection_box(Cur, par.lower, par.upper))
  /\ UNCHANGED branch

apply_projection_hypercube ==
  /\ Applied("projection_hypercube", projection_hypercube(Cur, par.scale))
  /\ UNCHANGED branch

apply_projection_simplex ==
  /\ Applied("projection_simplex", projection_simplex(Cur, par.scale))
  /\ UNCHANGED branch

apply_projection_l1_sphere ==
  /\ Applied("projection_l1_sphere", projection_l1_sphere(Cur, par.scale))
  /\ UNCHANGED branch

apply_projection_l1_ball ==
  /\ Applied("projection_l1_ball", projection_l1_ball(Cur, par.scale))
  /\ branch' = Append(branch, IF l1_ball_pred(Cur, par.scale)
                                THEN "identity" ELSE "projection_l1_sphere")

apply_projection_l2_sphere ==
  /\ Applied("projection_l2_sphere", projection_l2_sphere(Cur, par.scale))
  /\ UNCHANGED branch

apply_projection_l2_ball ==
  /\ Applied("projection_l2_ball", projection_l2_ball(Cur, par.scale))
  /\ UNCHANGED branch

apply_projection_linf_ball ==
  /\ Applied("projection_linf_ball", projection_linf_ball(Cur, par.scale))
  /\ UNCHANGED branch

InitProj ==
  /\ fn \in Projectors
  /\ x \in {v \in Vectors : InputOk(fn, v)}
  /\ par \in ParsOf(fn, x)
  /\ out = <<>>
  /\ branch = <<>>
  /\ TransIdle

NextProj ==
  \/ apply_projection_non_negative
  \/ apply_projection_box
  \/ apply_projection_hypercube
  \/ apply_projection_simplex
  \/ apply_projection_l1_sphere
  \/ apply_projection_l1_ball
  \/ apply_projection_l2_sphere
  \/ apply_projection_l2_ball
  \/ apply_projection_linf_ball

\* the projectors, each applied MaxApply times in a row to a drawn input
SpecProj == InitProj /\ [][NextProj]_vars


\* ------------------------------------------- conjugate-function gradients
\* X[:, j]
column(X, j) == [i \in 1..Len(X) |-> X[i][j]]

\* jax.vmap(jax.grad(_max_l2), in_axes=(1, 0, None)): row j is the gradient
\* of _max_l2 at column j of X, which is p, the stop_gradient'ed projection
max_l2_grad_vmap(X, marginal_b, gamma) ==
  [j \in 1..Len(X[1]) |->
     projection_unit_simplex(divided(column(X, j), mul(gamma, marginal_b[j])))]

\* jax.vmap(jax.grad(_max_ent), in_axes=(1, 0, None)): row j is
\* softmax(X[:, j] / gamma); entry i is kept as the term
\* weight * exp(arg[index]) / sum_k exp(arg[k])
max_ent_grad_vmap(X, marginal_b, gamma) ==
  [j \in 1..Len(X[1]) |->
     [i \in 1..Len(X) |->
        [fn |-> "softmax", arg |-> divided(column(X, j), gamma),
         index |-> i, weight |-> One]]]

\* jax.vmap(jax.grad(_delta_l2), in_axes=(1, None)): relu(x) / gamma
delta_l2_grad_vmap(X, gamma) ==
  [j \in 1..Len(X[1]) |->
     [i \in 1..Len(X) |-> mul(div(Int2Q(1), gamma), relu(X[i][j]))]]

\* jax.vmap(jax.grad(_delta_ent), in_axes=(1, None)): exp(x / gamma - 1),
\* kept as the term weight * exp(arg[1])
delta_ent_grad_vmap(X, gamma) ==
  [j \in 1..Len(X[1]) |->
     [i \in 1..Len(X) |->
        [fn |-> "exp", arg |-> <<sub(div(X[i][j], gamma), One)>>,
         index |-> 1, weight |-> One]]]

\* ------------------------------------------------------ transport drivers
\* mutant of semi_dual_check: the check for a missing make_solver is left out
semi_dual_check_no_default(cost_matrix, marginals_a, marginals_b, make_solver) ==
  LET size_a == shape(cost_matrix)[1]
      size_b == shape(cost_matrix)[2]
  IN  IF Len(marginals_a.shape) >= 2 THEN "ValueError"
      ELSE IF Len(marginals_b.shape) >= 2 THEN "ValueError"
      ELSE IF Len(marginals_a.shape) = 0 THEN "IndexError"
      ELSE IF size_a # marginals_a.shape[1] THEN "ValueError"
      ELSE IF Len(marginals_b.shape) = 0 THEN "IndexError"
      ELSE IF size_b # marginals_b.shape[1] THEN "ValueError"
      ELSE "ok"

\* the checks of _regularized_transport_semi_dual, in the order Python
\* evaluates them; shape[0] of a rank-0 array raises IndexError
semi_dual_check(cost_matrix, marginals_a, marginals_b, make_solver) ==
  LET size_a == shape(cost_matrix)[1]
      size_b == shape(cost_matrix)[2]
  IN  IF Len(marginals_a.shape) >= 2 THEN "ValueError"
      ELSE IF Len(marginals_b.shape) >= 2 THEN "ValueError"
      ELSE IF Len(marginals_a.shape) = 0 THEN "IndexError"
      ELSE IF size_a # marginals_a.shape[1] THEN "ValueError"
      ELSE IF Len(marginals_b.shape) = 0 THEN "IndexError"
      ELSE IF size_b # marginals_b.shape[1] THEN "ValueError"
      ELSE IF make_solver = "None" THEN "NotImplementedError"
      ELSE "ok"

\* the checks of _regularized_transport_dual
dual_check(cost_matrix, marginals_a, marginals_b, make_solver) ==
  LET size_a == shape(cost_matrix)[1]
      size_b == shape(cost_matrix)[2]
  IN  IF Len(marginals_a.shape) >= 2 THEN "ValueError"
      ELSE IF Len(marginals_b.shape) >= 2 THEN "ValueError"
      ELSE IF Len(marginals_a.shape) = 0 THEN "IndexError"
      ELSE IF size_a # marginals_a.shape[1] THEN "ValueError"
      ELSE IF Len(marginals_b.shape) = 0 THEN "IndexError"
      ELSE IF size_b # marginals_b.shape[1] THEN "ValueError"
      ELSE IF make_solver = "None" THEN "NotImplementedError"
      ELSE "ok"

\* mutant of semi_dual_alpha_init: the run starts from ones
semi_dual_alpha_init_ones(size_a) == ones(size_a)

\* alpha_init = jnp.zeros(size_a)
semi_dual_alpha_init(size_a) == zeros(size_a)

\* alpha_beta_init = (jnp.zeros(size_a), jnp.zeros(size_b))
dual_alpha_beta_init(size_a, size_b) == <<zeros(size_a), zeros(size_b)>>

\* solver.run(...).params
run_params(res) == res.params

\* mutant of semi_dual_plan: the L2 plan is not multiplied by marginals_b
semi_dual_plan_no_marginals(max_grad_vmap, alpha, cost_matrix, marginals_b, gamma) ==
  LET X == [i \in 1..Len(cost_matrix) |->
              [j \in 1..Len(cost_matrix[i]) |->
                 sub(alpha.data[i], cost_matrix[i][j])]]
      b == marginals_b.data
  IN  IF max_grad_vmap = "_max_l2_grad_vmap"
        THEN LET G == max_l2_grad_vmap(X, b, gamma)
             IN  [i \in 1..Len(X) |-> [j \in 1..Len(X[i]) |-> G[j][i]]]
        ELSE LET G == max_ent_grad_vmap(X, b, gamma)
             IN  [i \in 1..Len(X) |->
                    [j \in 1..Len(X[i]) |->
                       [G[j][i] EXCEPT !.weight = mul(@, b[j])]]]

\* P = max_grad_vmap(alpha[:, newaxis] - cost_matrix, marginals_b, gamma).T
\*       * marginals_b
semi_dual_plan(max_grad_vmap, alpha, cost_matrix, marginals_b, gamma) ==
  LET X == [i \in 1..Len(cost_matrix) |->
              [j \in 1..Len(cost_matrix[i]) |->
                 sub(alpha.data[i], cost_matrix[i][j])]]
      b == marginals_b.data
  IN  IF max_grad_vmap = "_max_l2_grad_vmap"
        THEN LET G == max_l2_grad_vmap(X, b, gamma)
             IN  [i \in 1..Len(X) |->
                    [j \in 1..Len(X[i]) |-> mul(G[j][i], b[j])]]
        ELSE LET G == max_ent_grad_vmap(X, b, gamma)
             IN  [i \in 1..Len(X) |->
                    [j \in 1..Len(X[i]) |->
                       [G[j][i] EXCEPT !.weight = mul(@, b[j])]]]

\* plan = delta_grad_vmap(alpha[:, newaxis] + beta[newaxis, :] - cost_matrix,
\*                        gamma).T
dual_plan(delta_grad_vmap, alpha_beta, cost_matrix, gamma) ==
  LET alpha == alpha_beta[1]
      beta == alpha_beta[2]
      dual_constraint_matrix ==
        [i \in 1..Len(cost_matrix) |->
           [j \in 1..Len(cost_matrix[i]) |->
              sub(add(alpha.data[i], beta.data[j]), cost_matrix[i][j])]]
      G == IF delta_grad_vmap = "_delta_l2_grad_vmap"
             THEN delta_l2_grad_vmap(dual_constraint_matrix, gamma)
             ELSE delta_ent_grad_vmap(dual_constraint_matrix, gamma)
  IN  [i \in 1..Len(cost_matrix) |->
         [j \in 1..Len(cost_matrix[i]) |-> G[j][i]]]


\* ---------------------------------------------- polytope projection wrappers
\* mutant of projection_transport: the similarity matrix is passed as the
\* cost matrix, not negated
projection_transport_not_negated(sim_matrix, marginals, make_solver, use_semi_dual) ==
  LET marginals_a == marginals[1]
      marginals_b == marginals[2]
  IN  IF use_semi_dual
        THEN [driver |-> "_regularized_transport_semi_dual",
              cost_matrix |-> sim_matrix,
              marginals_a |-> marginals_a, marginals_b |-> marginals_b,
              make_solver |-> make_solver, value_vmap |-> "_max_l2_vmap",
              grad_vmap |-> "_max_l2_grad_vmap", gamma |-> One]
        ELSE [driver |-> "_regularized_transport_dual",
              cost_matrix |-> sim_matrix,
              marginals_a |-> marginals_a, marginals_b |-> marginals_b,
              make_solver |-> make_solver, value_vmap |-> "_delta_l2_vmap",
              grad_vmap |-> "_delta_l2_grad_vmap", gamma |-> One]

\* the driver call projection_transport makes
projection_transport(sim_matrix, marginals, make_solver, use_semi_dual) ==
  LET marginals_a == marginals[1]
      marginals_b == marginals[2]
  IN  IF use_semi_dual
        THEN [driver |-> "_regularized_transport_semi_dual",
              cost_matrix |-> negated(sim_matrix),
              marginals_a |-> marginals_a, marginals_b |-> marginals_b,
              make_solver |-> make_solver, value_vmap |-> "_max_l2_vmap",
              grad_vmap |-> "_max_l2_grad_vmap", gamma |-> One]
        ELSE [driver |-> "_regularized_transport_dual",
              cost_matrix |-> negated(sim_matrix),
              marginals_a |-> marginals_a, marginals_b |-> marginals_b,
              make_solver |-> make_solver, value_vmap |-> "_delta_l2_vmap",
              grad_vmap |-> "_delta_l2_grad_vmap", gamma |-> One]

\* the driver call kl_projection_transport makes
kl_projection_transport(sim_matrix, marginals, make_solver, use_semi_dual) ==
  LET marginals_a == marginals[1]
      marginals_b == marginals[2]
  IN  IF use_semi_dual
        THEN [driver |-> "_regularized_transport_semi_dual",
              cost_matrix |-> negated(sim_matrix),
              marginals_a |-> marginals_a, marginals_b |-> marginals_b,
              make_solver |-> make_solver, value_vmap |-> "_max_ent_vmap",
              grad_vmap |-> "_max_ent_grad_vmap", gamma |-> One]
        ELSE [driver |-> "_regularized_transport_dual",
              cost_matrix |-> negated(sim_matrix),
              marginals_a |-> marginals_a, marginals_b |-> marginals_b,
              make_solver |-> make_solver, value_vmap |-> "_delta_ent_vmap",
              grad_vmap |-> "_delta_ent_grad_vmap", gamma |-> One]

\* mutant of projection_birkhoff: both marginals get the number of rows
projection_birkhoff_rows_only(sim_matrix, make_solver, use_semi_dual) ==
  LET marginals_a == ones(shape(sim_matrix)[1])
      marginals_b == ones(shape(sim_matrix)[1])
  IN  [fn |-> "projection_transport", sim_matrix |-> sim_matrix,
       marginals |-> <<marginals_a, marginals_b>>,
       make_solver |-> make_solver, use_semi_dual |-> use_semi_dual]

\* the call projection_birkhoff makes
projection_birkhoff(sim_matrix, make_solver, use_semi_dual) ==
  LET marginals_a == ones(shape(sim_matrix)[1])
      marginals_b == ones(shape(sim_matrix)[2])
  IN  [fn |-> "projection_transport", sim_matrix |-> sim_matrix,
       marginals |-> <<marginals_a, marginals_b>>,
       make_solver |-> make_solver, use_semi_dual |-> use_semi_dual]

\* the call kl_projection_birkhoff makes
kl_projection_birkhoff(sim_matrix, make_solver, use_semi_dual) ==
  LET marginals_a == ones(shape(sim_matrix)[1])
      marginals_b == ones(shape(sim_matrix)[2])
  IN  [fn |-> "kl_projection_transport", sim_matrix |-> sim_matrix,
       marginals |-> <<marginals_a, marginals_b>>,
       make_solver |-> make_solver, use_semi_dual |-> use_semi_dual]

\* ------------------------------------------------------ the transport call
\* a caller calls projection_transport
call_projection_transport ==
  /\ pc = "idle"
  /\ \E sim \in SimMatrices, a \in MarginalArrays, b \in MarginalArrays,
        ms \in MakeSolvers, usd \in BOOLEAN :
       /\ entry' = [fn |-> "projection_transport", sim_matrix |-> sim,
                    marginals |-> <<a, b>>, make_solver |-> ms,
                    use_semi_dual |-> usd]
       /\ targs' = entry'
  /\ pc' = "transport"
  /\ UNCHANGED <<dargs, calls, objective, run_init, result, plan, tplan,
                 bplan, error>>
  /\ UNCHANGED projvars

\* a caller calls kl_projection_transport
call_kl_projection_transport ==
  /\ pc = "idle"
  /\ \E sim \in SimMatrices, a \in MarginalArrays, b \in MarginalArrays,
        ms \in MakeSolvers, usd \in BOOLEAN :
       /\ entry' = [fn |-> "kl_projection_transport", sim_matrix |-> sim,
                    marginals |-> <<a, b>>, make_solver |-> ms,
                    use_semi_dual |-> usd]
       /\ targs' = entry'
  /\ pc' = "transport"
  /\ UNCHANGED <<dargs, calls, objective, run_init, result, plan, tplan,
                 bplan, error>>
  /\ UNCHANGED projvars

\* a caller calls projection_birkhoff, which calls projection_transport
call_projection_birkhoff ==
  /\ pc = "idle"
  /\ \E sim \in SimMatrices, ms \in MakeSolvers, usd \in BOOLEAN :
       /\ entry' = [fn |-> "projection_birkhoff", sim_matrix |-> sim,
                    marginals |-> <<>>, make_solver |-> ms,
                    use_semi_dual |-> usd]
       /\ targs' = projection_birkhoff(sim, ms, usd)
  /\ pc' = "transport"
  /\ UNCHANGED <<dargs, calls, objective, run_init, result, plan, tplan,
                 bplan, error>>
  /\ UNCHANGED projvars

\* a caller calls kl_projection_birkhoff, which calls kl_projection_transport
call_kl_projection_birkhoff ==
  /\ pc = "idle"
  /\ \E sim \in SimMatrices, ms \in MakeSolvers, usd \in BOOLEAN :
       /\ entry' = [fn |-> "kl_projection_birkhoff", sim_matrix |-> sim,
                    marginals |-> <<>>, make_solver |-> ms,
                    use_semi_dual |-> usd]
       /\ targs' = kl_projection_birkhoff(sim, ms, usd)
  /\ pc' = "transport"
  /\ UNCHANGED <<dargs, calls, objective, run_init, result, plan, tplan,
                 bplan, error>>
  /\ UNCHANGED projvars

\* projection_transport calls its driver
enter_projection_transport ==
  /\ pc = "transport"
  /\ targs.fn = "projection_transport"
  /\ dargs' = projection_transport(targs.sim_matrix, targs.marginals,
                                   targs.make_solver, targs.use_semi_dual)
  /\ calls' = [calls EXCEPT !.driver = @ + 1]
  /\ pc' = "driver"
  /\ UNCHANGED <<entry, targs, objective, run_init, result, plan, tplan,
                 bplan, error>>
  /\ UNCHANGED projvars

\* kl_projection_transport calls its driver
enter_kl_projection_transport ==
  /\ pc = "transport"
  /\ targs.fn = "kl_projection_transport"
  /\ dargs' = kl_projection_transport(targs.sim_matrix, targs.marginals,
                                      targs.make_solver, targs.use_semi_dual)
  /\ calls' = [calls EXCEPT !.driver = @ + 1]
  /\ pc' = "driver"
  /\ UNCHANGED <<entry, targs, objective, run_init, result, plan, tplan,
                 bplan, error>>
  /\ UNCHANGED projvars

\* _regularized_transport_semi_dual up to its call of solver.run
regularized_transport_semi_dual ==
  /\ pc = "driver"
  /\ dargs.driver = "_regularized_transport_semi_dual"
  /\ LET check == semi_dual_check(dargs.cost_matrix, dargs.marginals_a,
                                  dargs.marginals_b, dargs.make_solver)
         size_a == shape(dargs.cost_matrix)[1]
     IN  IF check # "ok"
           THEN /\ error' = check
                /\ pc' = "raised"
                /\ UNCHANGED <<calls, objective, run_init>>
           ELSE /\ objective' = [builder |-> "_make_semi_dual",
                                 vmap |-> dargs.value_vmap,
                                 gamma |-> dargs.gamma]
                /\ calls' = [calls EXCEPT !.make_solver = @ + 1,
                                          !.run = @ + 1]
                /\ run_init' = semi_dual_alpha_init(size_a)
                /\ pc' = "running"
                /\ UNCHANGED error
  /\ UNCHANGED <<entry, targs, dargs, result, plan, tplan, bplan>>
  /\ UNCHANGED projvars

\* _regularized_transport_dual up to its call of solver.run
regularized_transport_dual ==
  /\ pc = "driver"
  /\ dargs.driver = "_regularized_transport_dual"
  /\ LET check == dual_check(dargs.cost_matrix, dargs.marginals_a,
                             dargs.marginals_b, dargs.make_solver)
         size_a == shape(dargs.cost_matrix)[1]
         size_b == shape(dargs.cost_matrix)[2]
     IN  IF check # "ok"
           THEN /\ error' = check
                /\ pc' = "raised"
                /\ UNCHANGED <<calls, objective, run_init>>
           ELSE /\ objective' = [builder |-> "_make_dual",
                                 vmap |-> dargs.value_vmap,
                                 gamma |-> dargs.gamma]
                /\ calls' = [calls EXCEPT !.make_solver = @ + 1,
                                          !.run = @ + 1]
                /\ run_init' = dual_alpha_beta_init(size_a, size_b)
                /\ pc' = "running"
                /\ UNCHANGED error
  /\ UNCHANGED <<entry, targs, dargs, result, plan, tplan, bplan>>
  /\ UNCHANGED projvars

\* the dual variables a minimizer may return for n of them: the zero
\* vector it started from with at most one entry moved
ParamArrays(n) ==
  {Array(<<n>>, [i \in 1..n |-> Int2Q(IF i = k THEN v ELSE 0)]) :
     k \in 1..n, v \in 0..MaxParam}

\* the minimizer's run ends: any parameters of the shape of the initial
\* ones, converged or not, after any number of iterations
solver_run ==
  /\ pc = "running"
  /\ \E c \in BOOLEAN, k \in 0..MaxIter :
       \E p \in IF dargs.driver = "_regularized_transport_semi_dual"
                  THEN ParamArrays(run_init.shape[1])
                  ELSE ParamArrays(run_init[1].shape[1])
                         \X ParamArrays(run_init[2].shape[1]) :
         result' = [params |-> p, converged |-> c, iter_num |-> k]
  /\ pc' = "recover"
  /\ UNCHANGED <<entry, targs, dargs, calls, objective, run_init, plan,
                 tplan, bplan, error>>
  /\ UNCHANGED projvars

\* _regularized_transport_semi_dual from the return of solver.run
semi_dual_recover ==
  /\ pc = "recover"
  /\ dargs.driver = "_regularized_transport_semi_dual"
  /\ plan' = semi_dual_plan(dargs.grad_vmap, run_params(result),
                            dargs.cost_matrix, dargs.marginals_b, dargs.gamma)
  /\ pc' = "returned"
  /\ UNCHANGED <<entry, targs, dargs, calls, objective, run_init, result,
                 tplan, bplan, error>>
  /\ UNCHANGED projvars

\* _regularized_transport_dual from the return of solver.run
dual_recover ==
  /\ pc = "recover"
  /\ dargs.driver = "_regularized_transport_dual"
  /\ plan' = dual_plan(dargs.grad_vmap, run_params(result),
                       dargs.cost_matrix, dargs.gamma)
  /\ pc' = "returned"
  /\ UNCHANGED <<entry, targs, dargs, calls, objective, run_init, result,
                 tplan, bplan, error>>
  /\ UNCHANGED projvars

\* projection_transport / kl_projection_transport return the driver's plan
transport_return ==
  /\ pc = "returned"
  /\ tplan' = plan
  /\ pc' = "transport_returned"
  /\ UNCHANGED <<entry, targs, dargs, calls, objective, run_init, result,
                 plan, bplan, error>>
  /\ UNCHANGED projvars

\* projection_birkhoff / kl_projection_birkhoff return what the transport
\* wrapper returned
birkhoff_return ==
  /\ pc = "transport_returned"
  /\ entry.fn \in {"projection_birkhoff", "kl_projection_birkhoff"}
  /\ bplan' = tplan
  /\ pc' = "birkhoff_returned"
  /\ UNCHANGED <<entry, targs, dargs, calls, objective, run_init, result,
                 plan, tplan, error>>
  /\ UNCHANGED projvars

Init == ProjIdle /\ TransIdle

Next ==
  \/ call_projection_transport
  \/ call_kl_projection_transport
  \/ call_projection_birkhoff
  \/ call_kl_projection_birkhoff
  \/ enter_projection_transport
  \/ enter_kl_projection_transport
  \/ regularized_transport_semi_dual
  \/ regularized_transport_dual
  \/ solver_run
  \/ semi_dual_recover
  \/ dual_recover
  \/ transport_return
  \/ birkhoff_return

\* one call of a public transport entry point
Spec == Init /\ [][Next]_vars

\* ------------------------------------ the plan of the L2 semi-dual driver
\* similarity matrices with at most one entry moved from 0, of either sign
PlanSimMatrices ==
  {[i \in 1..m |-> [j \in 1..n |-> Int2Q(IF <<i, j>> = pos THEN d ELSE 0)]] :
     m \in 1..MaxDim, n \in 1..MaxDim,
     pos \in (1..MaxDim) \X (1..MaxDim), d \in -MaxSim..MaxSim}

\* strictly positive marginals_b of length n: all ones, 1..n, and 1/n each
PlanMarginalsB(n) ==
  {ones(n), Array(<<n>>, [j \in 1..n |-> Int2Q(j)]),
   Array(<<n>>, full(n, Q(1, n)))}

\* marginals_a of length m with the total mass of marginals_b
PlanMarginalsA(m, marginals_b) ==
  Array(<<m>>, full(m, div(SumSeq(marginals_b.data), Int2Q(m))))

\* what a minimizer may return for the m variables of the semi-dual: the
\* vectors of entries -MaxParam, 0 and MaxParam
PlanParams(m) ==
  {Array(<<m>>, v) : v \in [1..m -> {Int2Q(i) : i \in {-MaxParam, 0, MaxParam}}]}

\* projection_transport(sim_matrix, marginals, make_solver) with the default
\* use_semi_dual=True has passed the driver's checks and solver.run has
\* returned, converged at once or not converged after MaxIter iterations
InitPlan ==
  /\ ProjIdle
  /\ \E sim \in PlanSimMatrices :
       \E b \in PlanMarginalsB(shape(sim)[2]), alpha \in PlanParams(shape(sim)[1]),
          c \in BOOLEAN :
         /\ entry = [fn |-> "projection_transport", sim_matrix |-> sim,
                     marginals |-> <<PlanMarginalsA(shape(sim)[1], b), b>>,
                     make_solver |-> "make_solver", use_semi_dual |-> TRUE]
         /\ result = [params |-> alpha, converged |-> c,
                      iter_num |-> IF c THEN 0 ELSE MaxIter]
  /\ targs = entry
  /\ dargs = projection_transport(targs.sim_matrix, targs.marginals,
                                  targs.make_solver, targs.use_semi_dual)
  /\ semi_dual_check(dargs.cost_matrix, dargs.marginals_a, dargs.marginals_b,
                     dargs.make_solver) = "ok"
  /\ calls = [driver |-> 1, make_solver |-> 1, run |-> 1]
  /\ objective = [builder |-> "_make_semi_dual", vmap |-> dargs.value_vmap,
                  gamma |-> dargs.gamma]
  /\ run_init = semi_dual_alpha_init(shape(dargs.cost_matrix)[1])
  /\ pc = "recover"
  /\ plan = <<>>
  /\ tplan = <<>>
  /\ bplan = <<>>
  /\ error = "none"

NextPlan ==
  \/ semi_dual_recover
  \/ transport_return

\* the plan of the L2 semi-dual driver, from the return of solver.run
SpecPlan == InitPlan /\ [][NextPlan]_vars


\* ================================================================== claims
\* the transport call has got past the driver's checks or was stopped by them
PastChecks ==
  pc \in {"raised", "running", "recover", "returned", "transport_returned",
          "birkhoff_returned"}

\* the driver's minimizer run was started
RunStarted ==
  pc \in {"running", "recover", "returned", "transport_returned",
          "birkhoff_returned"}

\* the driver returned its plan
DriverReturned ==
  pc \in {"returned", "transport_returned", "birkhoff_returned"}

\* a marginal is a vector of the given length
IsVectorOfLen(marginal, n) ==
  Len(marginal.shape) = 1 /\ marginal.shape[1] = n

\* the driver was given marginals of rank 1 whose lengths are the rows and
\* the columns of the cost matrix
ValidMarginals ==
  /\ IsVectorOfLen(dargs.marginals_a, shape(dargs.cost_matrix)[1])
  /\ IsVectorOfLen(dargs.marginals_b, shape(dargs.cost_matrix)[2])

\* C1: in both drivers, a call whose marginals_a or marginals_b is not of
\* rank 1, or whose length is not the matching dimension of the cost matrix,
\* fails with ValueError, before make_solver is invoked and before any
\* minimizer run starts, whether or not make_solver was supplied.
C1_InvalidMarginalsRaiseValueError ==
  (PastChecks /\ ~ValidMarginals) =>
    /\ pc = "raised"
    /\ error = "ValueError"
    /\ calls.make_solver = 0
    /\ calls.run = 0

\* the caller's arguments are valid for the entry point: the Birkhoff
\* wrappers take no marginals, the transport wrappers take a pair of vectors
\* of the lengths of the rows and the columns of the similarity matrix
ValidEntry ==
  \/ entry.fn \in {"projection_birkhoff", "kl_projection_birkhoff"}
  \/ /\ entry.fn \in {"projection_transport", "kl_projection_transport"}
     /\ IsVectorOfLen(entry.marginals[1], shape(entry.sim_matrix)[1])
     /\ IsVectorOfLen(entry.marginals[2], shape(entry.sim_matrix)[2])

IsZeros(array, n) ==
  /\ array.shape = <<n>>
  /\ Len(array.data) = n
  /\ \A i \in 1..n : array.data[i] = Zero

\* C3: every driver call that passes validation invokes make_solver exactly
\* once and the solver's run exactly once, from all-zero dual variables
\* (length m for the semi-dual, a pair of lengths m and n for the full dual);
\* it never retries, and it returns the plan computed from the parameters the
\* run returned, whatever the convergence status and the iteration count are.
C3_OneRunFromZeros ==
  /\ calls.make_solver <= 1
  /\ calls.run <= 1
  /\ (PastChecks /\ ValidMarginals /\ dargs.make_solver # "None") =>
       /\ RunStarted
       /\ error = "none"
       /\ calls.make_solver = 1
       /\ calls.run = 1
       /\ IF dargs.driver = "_regularized_transport_semi_dual"
            THEN /\ objective.builder = "_make_semi_dual"
                 /\ IsZeros(run_init, Len(dargs.cost_matrix))
            ELSE /\ objective.builder = "_make_dual"
                 /\ IsZeros(run_init[1], Len(dargs.cost_matrix))
                 /\ IsZeros(run_init[2], Len(dargs.cost_matrix[1]))
  /\ DriverReturned =>
       plan = IF dargs.driver = "_regularized_transport_semi_dual"
                THEN semi_dual_plan(dargs.grad_vmap, result.params,
                                    dargs.cost_matrix, dargs.marginals_b,
                                    dargs.gamma)
                ELSE dual_plan(dargs.grad_vmap, result.params,
                               dargs.cost_matrix, dargs.gamma)

C3_Witness ==
  /\ pc = "returned"
  /\ dargs.driver = "_regularized_transport_semi_dual"
  /\ ~result.converged
  /\ result.params # run_init
  /\ calls.run = 1
  /\ plan # <<>>


\* the Birkhoff wrapper was called with a matrix that is not square
BirkhoffNotSquare ==
  /\ entry.fn \in {"projection_birkhoff", "kl_projection_birkhoff"}
  /\ shape(entry.sim_matrix)[1] # shape(entry.sim_matrix)[2]

\* what the call of entry point f delegates to
DelegateOf(f) ==
  IF f = "projection_birkhoff" THEN "projection_transport"
  ELSE "kl_projection_transport"

\* the Birkhoff wrappers call their transport wrapper with all-ones
\* marginals of the numbers of rows and of columns and with the caller's
\* sim_matrix, make_solver and use_semi_dual, and return what it returns
BirkhoffDelegates ==
  (entry.fn \in {"projection_birkhoff", "kl_projection_birkhoff"}) =>
    /\ targs.fn = DelegateOf(entry.fn)
    /\ targs.sim_matrix = entry.sim_matrix
    /\ targs.make_solver = entry.make_solver
    /\ targs.use_semi_dual = entry.use_semi_dual
    /\ \A k \in 1..2 :
         /\ targs.marginals[k].shape = <<shape(entry.sim_matrix)[k]>>
         /\ Len(targs.marginals[k].data) = shape(entry.sim_matrix)[k]
         /\ \A i \in 1..Len(targs.marginals[k].data) :
              targs.marginals[k].data[i] = One
    /\ (pc = "birkhoff_returned") => (bplan = tplan /\ tplan = plan)

\* C9 as stated: projection_birkhoff and kl_projection_birkhoff accept only
\* square similarity matrices (a matrix that is not square gets no minimizer
\* run and no plan), and for an n x n input they call their transport wrapper
\* with both marginals the all-ones vector of length n and make_solver and
\* use_semi_dual unchanged, and return exactly its result.
C9_BirkhoffOnlySquare ==
  /\ BirkhoffNotSquare => ~RunStarted
  /\ BirkhoffDelegates

\* C9 as amended: the wrappers do not check that the matrix is square; for an
\* m x n input they call their transport wrapper with the all-ones vectors of
\* lengths m and n (both of length n for an n x n input) and make_solver and
\* use_semi_dual unchanged, and return exactly its result.
C9_BirkhoffDelegates == BirkhoffDelegates

C9_Witness ==
  /\ pc = "birkhoff_returned"
  /\ entry.fn = "projection_birkhoff"
  /\ BirkhoffNotSquare
  /\ ~entry.use_semi_dual
  /\ bplan # <<>>

\* C10: projection_transport and kl_projection_transport pass the negated
\* similarity matrix to exactly one driver per call, the semi-dual driver
\* when use_semi_dual holds and the full-dual driver otherwise;
\* projection_transport binds the squared-L2 conjugate and its gradient and
\* kl_projection_transport the entropy conjugate and its gradient (max for
\* the semi-dual, delta for the full dual).
C10_WrapperBinding ==
  /\ calls.driver <= 1
  /\ (pc \notin {"idle", "transport"}) =>
       /\ calls.driver = 1
       /\ shape(dargs.cost_matrix) = shape(targs.sim_matrix)
       /\ \A i \in 1..Len(targs.sim_matrix) :
            \A j \in 1..Len(targs.sim_matrix[i]) :
              add(dargs.cost_matrix[i][j], targs.sim_matrix[i][j]) = Zero
       /\ dargs.marginals_a = targs.marginals[1]
       /\ dargs.marginals_b = targs.marginals[2]
       /\ dargs.make_solver = targs.make_solver
       /\ dargs.driver = IF targs.use_semi_dual
                           THEN "_regularized_transport_semi_dual"
                           ELSE "_regularized_transport_dual"
       /\ <<dargs.value_vmap, dargs.grad_vmap>> =
            IF targs.fn = "projection_transport"
              THEN IF targs.use_semi_dual
                     THEN <<"_max_l2_vmap", "_max_l2_grad_vmap">>
                     ELSE <<"_delta_l2_vmap", "_delta_l2_grad_vmap">>
              ELSE IF targs.use_semi_dual
                     THEN <<"_max_ent_vmap", "_max_ent_grad_vmap">>
                     ELSE <<"_delta_ent_vmap", "_delta_ent_grad_vmap">>

C10_Witness ==
  /\ pc = "driver"
  /\ entry.fn = "projection_transport"
  /\ ~targs.use_semi_dual
  /\ targs.sim_matrix[1][1] = One
  /\ dargs.cost_matrix[1][1] = Int2Q(-1)
  /\ dargs.grad_vmap = "_delta_l2_grad_vmap"


\* the input of application k of the projector
InputOf(k) == IF k = 1 THEN x ELSE out[k - 1]

IsZeroVector(v) == \A i \in 1..Len(v) : v[i] = Zero

\* C4: for each of the nine projectors, every input vector (also with zero
\* entries, also the zero vector) and every positive scale or bounds
\* lower <= upper, applying the projector twice with the same parameters
\* gives what applying it once gives: proj(proj(x)) = proj(x).
C4_Idempotent ==
  (Len(out) >= 2 /\ gt(par.scale, Zero)) => out[2] = out[1]

\* C5: for every non-empty v and positive scale s, projection_simplex(v, s)
\* has the length of v, entries >= 0 and sum s; and when v has entries >= 0
\* and sum s already, the result is v.
C5_SimplexContract ==
  (fn = "projection_simplex") =>
    \A k \in 1..Len(out) :
      /\ Len(out[k]) = Len(InputOf(k))
      /\ \A i \in 1..Len(out[k]) : le(Zero, out[k][i])
      /\ SumSeq(out[k]) = par.scale
      /\ ((\A i \in 1..Len(InputOf(k)) : le(Zero, InputOf(k)[i]))
            /\ SumSeq(InputOf(k)) = par.scale)
           => out[k] = InputOf(k)

\* a vector with a negative entry was projected to a different vector, and
\* that one, which has entries >= 0 and sum s, was projected to itself
C5_Witness ==
  /\ fn = "projection_simplex"
  /\ Len(out) = 2
  /\ par.scale = Int2Q(2)
  /\ \E i \in 1..Len(x) : lt(x[i], Zero)
  /\ \E i \in 1..Len(x) : out[1][i] = Zero
  /\ \E i \in 1..Len(x) : lt(Zero, out[1][i]) /\ out[1][i] # x[i]
  /\ out[2] = out[1]

\* C6: for every v and positive scale, projection_l1_ball(v, scale) returns
\* v unchanged, by the identity branch, when the L1 norm of v is <= scale,
\* and otherwise a vector whose L1 norm is exactly scale.
C6_L1Ball ==
  (fn = "projection_l1_ball") =>
    \A k \in 1..Len(out) :
      IF le(tree_norm_l1(InputOf(k)), par.scale)
        THEN out[k] = InputOf(k) /\ branch[k] = "identity"
        ELSE tree_norm_l1(out[k]) = par.scale
               /\ branch[k] = "projection_l1_sphere"

\* a vector outside the ball, with a zero entry, was projected onto the
\* sphere, and the result, now in the ball, was returned unchanged
C6_Witness ==
  /\ fn = "projection_l1_ball"
  /\ Len(out) = 2
  /\ lt(par.scale, tree_norm_l1(x))
  /\ \E i \in 1..Len(x) : x[i] = Zero
  /\ \E i \in 1..Len(x) : lt(x[i], Zero)
  /\ branch = <<"projection_l1_sphere", "identity">>
  /\ tree_norm_l1(out[1]) = par.scale
  /\ out[2] = out[1]

\* C7: for an input whose L2 norm is 0, projection_l2_ball returns the zero
\* vector for every scale, scale = 0 included, and the factor it multiplies
\* by is computed without a division by zero, a NaN or an Inf.
C7_L2BallZeroNorm ==
  (fn = "projection_l2_ball" /\ tree_norm_squared(x) = Zero /\ Len(out) >= 1)
    => /\ IsZeroVector(out[1])
       /\ IsFinite(l2_ball_factor(x, par.scale))

\* C8: for an input whose L2 norm is 0, projection_l2_sphere does not divide
\* by zero and returns the zero vector (no NaN, no Inf), for every scale.
C8_L2SphereZeroNorm ==
  (fn = "projection_l2_sphere" /\ tree_norm_squared(x) = Zero
     /\ Len(out) >= 1)
    => /\ IsZeroVector(out[1])
       /\ IsFinite(l2_sphere_factor(x, par.scale))

\* the vector _projection_unit_simplex is given in application k of
\* projection_simplex (tree / scale) or projection_l1_sphere (|tree| / scale)
UnitSimplexInput(k) ==
  IF fn = "projection_simplex" THEN divided(InputOf(k), par.scale)
  ELSE divided([i \in 1..Len(InputOf(k)) |-> abs(InputOf(k)[i])], par.scale)

\* cond of _projection_unit_simplex for the input values
CondOf(values) ==
  LET u == reversed(sort(values)) IN simplex_cond(u, cumsum(u))

\* C11: in the unit-simplex projector, for every non-empty input sorted
\* descending into u, the test s/k + (u[k] - cumsum(u)[k]/k) > 0 holds for
\* k = 1 and, once false at some k, is false for all larger k; so idx, the
\* count of passing indices, is at least 1 and is the largest passing index,
\* and cumsum_u[idx - 1] and the division by idx are well defined.
C11_CondMonotone ==
  (fn \in {"projection_simplex", "projection_l1_sphere"}) =>
    \A k \in 1..Len(out) :
      LET values == UnitSimplexInput(k)
          cond == CondOf(values)
          idx == simplex_idx(values)
      IN  /\ Len(values) >= 1
          /\ cond[1]
          /\ \A i \in 1..Len(cond) : \A j \in i..Len(cond) :
               ~cond[i] => ~cond[j]
          /\ idx >= 1
          /\ idx <= Len(values)
          /\ cond[idx]
          /\ \A j \in (idx + 1)..Len(cond) : ~cond[j]
          /\ idx - 1 \in 0..(Len(values) - 1)
          /\ Int2Q(idx) # Zero

\* the projector was applied to a vector of three entries of which the two
\* largest pass the test and the smallest does not
C11_Witness ==
  /\ fn = "projection_simplex"
  /\ Len(out) >= 1
  /\ Len(x) = 3
  /\ CondOf(UnitSimplexInput(1)) = <<TRUE, TRUE, FALSE>>
  /\ simplex_idx(UnitSimplexInput(1)) = 2
  /\ \E i \in 1..3 : out[1][i] = Zero

\* the sum of row i of a matrix
RowSum(matrix, i) == SumSeq(matrix[i])

\* the sum of column j of a matrix
ColumnSum(matrix, j) == SumSeq(column(matrix, j))

\* the L2 semi-dual driver has returned its plan
L2SemiDualReturned ==
  /\ pc \in {"returned", "transport_returned"}
  /\ dargs.driver = "_regularized_transport_semi_dual"
  /\ dargs.grad_vmap = "_max_l2_grad_vmap"

\* C12: in the L2 semi-dual formulation, for any dual vector alpha the
\* minimizer returns (converged or not), any cost matrix and any strictly
\* positive marginals_b, the recovered plan has every entry >= 0 and every
\* column j sums to exactly marginals_b[j]; the row sums are not bound to
\* marginals_a.
C12_L2PlanColumns ==
  (L2SemiDualReturned
     /\ \A j \in 1..Len(dargs.marginals_b.data) :
          gt(dargs.marginals_b.data[j], Zero))
    => /\ shape(plan) = shape(dargs.cost_matrix)
       /\ \A i \in 1..Len(plan) : \A j \in 1..Len(plan[i]) :
            le(Zero, plan[i][j])
       /\ \A j \in 1..Len(plan[1]) :
            ColumnSum(plan, j) = dargs.marginals_b.data[j]

\* a run that did not converge returned an alpha with entries of both signs
\* for marginals_b = (1, 2): the plan has a zero entry, its columns sum to 1
\* and 2, and a row sum differs from marginals_a
C12_Witness ==
  /\ L2SemiDualReturned
  /\ ~result.converged
  /\ dargs.marginals_b.data = <<Int2Q(1), Int2Q(2)>>
  /\ \E i \in 1..Len(result.params.data) : lt(result.params.data[i], Zero)
  /\ \E i \in 1..Len(result.params.data) : gt(result.params.data[i], Zero)
  /\ \E i \in 1..Len(dargs.cost_matrix) : \E j \in 1..2 :
       dargs.cost_matrix[i][j] # Zero
  /\ \E i \in 1..Len(plan) : \E j \in 1..2 : plan[i][j] = Zero
  /\ ColumnSum(plan, 1) = Int2Q(1)
  /\ ColumnSum(plan, 2) = Int2Q(2)
  /\ \E i \in 1..Len(plan) : RowSum(plan, i) # dargs.marginals_a.data[i]

====
